---- MODULE Spec2Model ----
(***************************************************************************)
(* Model of pages/3_Asistente_IA.py: the "Analista de Datos Interactivo"   *)
(* tab (question -> generated script -> exec with stdout capture ->         *)
(* interpretation), together with the page prologue that loads the data    *)
(* and configures the Gemini model.                                         *)
(*                                                                         *)
(* Text is a sequence of one-character strings.  A generated script is a   *)
(* sequence of instructions [op, arg]; sys.stdout is an object id: 0 is    *)
(* the interpreter's original stream, k >= 1 is the k-th StringIO.         *)
(* Each Streamlit session runs the page in its own thread of one process,  *)
(* so sys.stdout, the StringIO heap and the console are process-wide and   *)
(* everything else is local to the session's script run.                   *)
(***************************************************************************)
EXTENDS Integers, Sequences, FiniteSets, TLC

\* ---------------------------------------------------------------- bounds
MaxRows == 3
MaxRequests == 2
NumSessions == 2

Sessions == 1..NumSessions

\* ------------------------------------------------------------------ text
NL == "\n"

Digit(d) == CASE d = 0 -> "0" [] d = 1 -> "1" [] d = 2 -> "2" [] d = 3 -> "3"
              [] d = 4 -> "4" [] d = 5 -> "5" [] d = 6 -> "6" [] d = 7 -> "7"
              [] d = 8 -> "8" [] d = 9 -> "9"

RECURSIVE str(_)
\* str(len(df)): the decimal digits of a non-negative integer
str(n) == IF n < 10 THEN <<Digit(n)>> ELSE str(n \div 10) \o <<Digit(n % 10)>>

\* what print(x) writes to sys.stdout: the text, then the end="\n" terminator
print(text) == text \o <<NL>>

\* ---------------------------------------------------------- instructions
Ins(o, a) == [op |-> o, arg |-> a]

\* exceptions a generated script can raise; SystemExit derives from
\* BaseException only, every other one derives from Exception
ExceptionSubclasses == {"NameError", "ZeroDivisionError", "AttributeError",
                        "GoogleAPIError", "ValueError"}

\* the globals dict handed to exec, line 150
exec_globals == {"pd", "df"}

\* exec inserts __builtins__ into a globals dict that lacks it, so the
\* builtin namespace is reachable from the script as well
builtins == {"print", "len", "open", "__import__"}

\* names of the page's own namespace, not passed to exec
HostNames == {"model", "st", "df_filtrado"}

\* name resolution inside the exec'ed script
Lookup(name) == name \in exec_globals \/ name \in builtins

\* the scripts the language model may answer with
Script42 == << Ins("write", <<"4", "2">>) >>
ScriptLen == << Ins("print_len_df", <<>>) >>
ScriptSilent == << Ins("ref", <<"df">>) >>
ScriptNoCode == << >>
ScriptPartial == << Ins("print", <<"a">>), Ins("raise", <<"ZeroDivisionError">>) >>
ScriptRaiseFirst == << Ins("raise", <<"ZeroDivisionError">>) >>
ScriptExit == << Ins("print", <<"b">>), Ins("raise", <<"SystemExit">>) >>
ScriptHost == << Ins("ref", <<"model">>), Ins("print", <<"c">>) >>
ScriptOpen == << Ins("ref", <<"open">>), Ins("print", <<"d">>) >>

Scripts == {Script42, ScriptLen, ScriptSilent, ScriptNoCode, ScriptPartial,
            ScriptRaiseFirst, ScriptExit, ScriptHost, ScriptOpen}

\* markup the model may wrap the script in
FencePy == Ins("fence_python", <<>>)
Fence == Ins("fence", <<>>)
Space == Ins("ws", <<>>)

Fenced(script) == <<Space, FencePy>> \o script \o <<Fence, Space>>

\* respuesta_ia.text for a successful script-generation call
Responses == Scripts \cup {Fenced(sc) : sc \in Scripts}

RECURSIVE strip(_)
\* str.strip(): drop leading and trailing whitespace
strip(t) == IF t = <<>> THEN t
            ELSE IF Head(t) = Space THEN strip(Tail(t))
            ELSE IF t[Len(t)] = Space THEN strip(SubSeq(t, 1, Len(t) - 1))
            ELSE t

\* line 144: .strip().replace(FencePy, "").replace(Fence, "")
StripFences(t) ==
    LET a == strip(t)
        b == SelectSeq(a, LAMBDA x : x # FencePy)
    IN  SelectSeq(b, LAMBDA x : x # Fence)

\* ----------------------------------------------------------------- state
VARIABLES
    df_citas_completa,   \* rows of the cached dataset, line 21
    sys_stdout,          \* the process-wide sys.stdout (object id)
    buffers,             \* contents of the StringIO objects created so far
    console,             \* what has been written to the original stream
    requests,            \* button clicks served so far (bounded)
    pc,                  \* position of each session's script run
    model,               \* line 28-35: TRUE when GenerativeModel was built
    pregunta_usuario,    \* line 110
    df_filtrado,         \* rows left after the sidebar filters, line 76-83
    codigo_generado,     \* line 144
    ip,                  \* next instruction of the exec'ed script
    old_stdout,          \* line 149
    resultado_analisis,  \* line 151
    prompt_interprete,   \* line 154-167: what the second call is given
    ui,                  \* what the run displayed through st.*
    escaped,             \* exception that left the try block uncaught
    calls,               \* history: calls issued by the current request
    stage,               \* history: stage of the current request
    own,                 \* history: text written by the session's own script
    resolved,            \* history: names the script looked up successfully
    raised,              \* history: exception raised by the script, if any
    genFailed,           \* history: the script-generation call failed
    before               \* history: sys.stdout and console at the click

globals == <<df_citas_completa, sys_stdout, buffers, console, requests>>
locals == <<pc, model, pregunta_usuario, df_filtrado, codigo_generado, ip,
            old_stdout, resultado_analisis, prompt_interprete, ui, escaped>>
history == <<calls, stage, own, resolved, raised, genFailed, before>>
vars == <<globals, locals, history>>

Console == 0
Unbound == <<"unbound">>
NoObject == 0 - 1
None == "None"

Questions == {<<>>, <<"q">>}
Answer == <<"o", "k">>

Msg(kind, text) == [kind |-> kind, text |-> text]

Shown(s, kind) == \E i \in 1..Len(ui[s]) : ui[s][i].kind = kind

Ended(s) == pc[s] \in {"end", "crashed"}

Init ==
    /\ df_citas_completa \in 0..MaxRows
    /\ sys_stdout = Console
    /\ buffers = <<>>
    /\ console = <<>>
    /\ requests = 0
    /\ pc = [s \in Sessions |-> "idle"]
    /\ model = [s \in Sessions |-> FALSE]
    /\ pregunta_usuario = [s \in Sessions |-> <<>>]
    /\ df_filtrado = [s \in Sessions |-> 0]
    /\ codigo_generado = [s \in Sessions |-> <<>>]
    /\ ip = [s \in Sessions |-> 1]
    /\ old_stdout = [s \in Sessions |-> NoObject]
    /\ resultado_analisis = [s \in Sessions |-> Unbound]
    /\ prompt_interprete = [s \in Sessions |-> Unbound]
    /\ ui = [s \in Sessions |-> <<>>]
    /\ escaped = [s \in Sessions |-> None]
    /\ calls = [s \in Sessions |-> [gen |-> 0, exec |-> 0, interp |-> 0]]
    /\ stage = [s \in Sessions |-> "None"]
    /\ own = [s \in Sessions |-> <<>>]
    /\ resolved = [s \in Sessions |-> {}]
    /\ raised = [s \in Sessions |-> None]
    /\ genFailed = [s \in Sessions |-> FALSE]
    /\ before = [s \in Sessions |-> [stdout |-> Console, console |-> <<>>]]

\* the validation without its last branch: an empty selection is let through
Validate_SkipsDataCheck(m, q, n) ==
    IF ~m THEN "error_no_model"
    ELSE IF q = <<>> THEN "warn_question"
    ELSE "start"

\* line 112-115: the branch the button handler takes
Validate(m, q, n) ==
    IF ~m THEN "error_no_model"
    ELSE IF q = <<>> THEN "warn_question"
    ELSE IF n = 0 THEN "warn_no_data"
    ELSE "start"

\* the handler with one automatic retry of the whole request
Except_Retries(s, e) ==
    IF e \in ExceptionSubclasses /\ calls[s].gen < 2
    THEN /\ stage' = [stage EXCEPT ![s] = "Requested"]
         /\ pc' = [pc EXCEPT ![s] = "generate"]
         /\ UNCHANGED <<ui, escaped>>
    ELSE /\ stage' = [stage EXCEPT ![s] = "Failed"]
         /\ pc' = [pc EXCEPT ![s] = IF e \in ExceptionSubclasses THEN "end" ELSE "crashed"]
         /\ ui' = ui
         /\ escaped' = [escaped EXCEPT ![s] = IF e \in ExceptionSubclasses THEN @ ELSE e]

\* line 171-173: except Exception as e -> st.error, st.exception(e);
\* anything that is not an Exception leaves the handler uncaught
Except(s, e) ==
    /\ stage' = [stage EXCEPT ![s] = "Failed"]
    /\ IF e \in ExceptionSubclasses
       THEN /\ pc' = [pc EXCEPT ![s] = "end"]
            /\ ui' = [ui EXCEPT ![s] = @ \o <<Msg("error_oops", <<>>),
                                             Msg("exception", <<e>>)>>]
            /\ escaped' = escaped
       ELSE /\ pc' = [pc EXCEPT ![s] = "crashed"]
            /\ ui' = ui
            /\ escaped' = [escaped EXCEPT ![s] = e]

\* a fresh script run: line 21-35 (load, st.stop on empty, model set-up),
\* 59-83 (filters), 106-115 (question, button, validation)
RunPage(s) ==
    /\ pc[s] = "idle"
    /\ requests < MaxRequests
    /\ requests' = requests + 1
    /\ \E m \in BOOLEAN, q \in Questions, n \in 0..df_citas_completa :
        LET stopped == df_citas_completa = 0
            branch == Validate(m, q, n)
            prologue == IF m THEN <<>> ELSE <<Msg("error_model_config", <<>>)>>
        IN  /\ stopped => (~m /\ q = <<>>)
            /\ model' = [model EXCEPT ![s] = m]
            /\ pregunta_usuario' = [pregunta_usuario EXCEPT ![s] = q]
            /\ df_filtrado' = [df_filtrado EXCEPT ![s] = n]
            /\ ui' = [ui EXCEPT ![s] =
                        IF stopped THEN <<Msg("error_load", <<>>)>>
                        ELSE IF branch = "start" THEN prologue
                        ELSE prologue \o <<Msg(branch, <<>>)>>]
            /\ pc' = [pc EXCEPT ![s] =
                        IF ~stopped /\ branch = "start" THEN "generate" ELSE "end"]
            /\ stage' = [stage EXCEPT ![s] =
                        IF ~stopped /\ branch = "start" THEN "Requested" ELSE "None"]
    /\ before' = [before EXCEPT ![s] = [stdout |-> sys_stdout, console |-> console]]
    /\ UNCHANGED <<df_citas_completa, sys_stdout, buffers, console,
                   codigo_generado, ip, old_stdout, resultado_analisis,
                   prompt_interprete, escaped, calls, own, resolved, raised,
                   genFailed>>

\* the failure caught around the call alone: the run goes on with no script
GenerateFailed_Continues(s) ==
    /\ genFailed' = [genFailed EXCEPT ![s] = TRUE]
    /\ ui' = [ui EXCEPT ![s] = Append(@, Msg("error_oops", <<>>))]
    /\ pc' = [pc EXCEPT ![s] = "redirect"]
    /\ stage' = [stage EXCEPT ![s] = "ScriptObtained"]
    /\ UNCHANGED <<codigo_generado, escaped>>

\* line 143 raising, caught at line 171-173: nothing after it runs
GenerateFailed(s) ==
    /\ genFailed' = [genFailed EXCEPT ![s] = TRUE]
    /\ Except(s, "GoogleAPIError")
    /\ UNCHANGED codigo_generado

\* line 143-146 when the call answers: fence stripping, st.code
GenerateOk(s) ==
    \E text \in Responses :
        /\ codigo_generado' = [codigo_generado EXCEPT ![s] = StripFences(text)]
        /\ ui' = [ui EXCEPT ![s] = Append(@, Msg("code", <<>>))]
        /\ pc' = [pc EXCEPT ![s] = "redirect"]
        /\ stage' = [stage EXCEPT ![s] = "ScriptObtained"]
        /\ UNCHANGED <<genFailed, escaped>>

\* line 143-146: the script-generation call
GenerateScript(s) ==
    /\ pc[s] = "generate"
    /\ calls' = [calls EXCEPT ![s].gen = @ + 1]
    /\ (GenerateFailed(s) \/ GenerateOk(s))
    /\ UNCHANGED <<globals, model, pregunta_usuario, df_filtrado, ip, old_stdout,
                   resultado_analisis, prompt_interprete, own, resolved, raised,
                   before>>

\* the redirection that keeps a StringIO it finds installed instead of
\* allocating a fresh one
Redirect_ReusesBuffer(s) ==
    /\ pc[s] = "redirect"
    /\ old_stdout' = [old_stdout EXCEPT ![s] = sys_stdout]
    /\ IF sys_stdout = Console
       THEN /\ buffers' = Append(buffers, <<>>)
            /\ sys_stdout' = Len(buffers) + 1
       ELSE UNCHANGED <<buffers, sys_stdout>>
    /\ pc' = [pc EXCEPT ![s] = "exec"]
    /\ UNCHANGED <<df_citas_completa, console, requests, model, pregunta_usuario,
                   df_filtrado, codigo_generado, ip, resultado_analisis,
                   prompt_interprete, ui, escaped, history>>

\* line 148-149: old_stdout, sys.stdout = sys.stdout, StringIO()
Redirect(s) ==
    /\ pc[s] = "redirect"
    /\ old_stdout' = [old_stdout EXCEPT ![s] = sys_stdout]
    /\ buffers' = Append(buffers, <<>>)
    /\ sys_stdout' = Len(buffers) + 1
    /\ pc' = [pc EXCEPT ![s] = "exec"]
    /\ UNCHANGED <<df_citas_completa, console, requests, model, pregunta_usuario,
                   df_filtrado, codigo_generado, ip, resultado_analisis,
                   prompt_interprete, ui, escaped, history>>

\* reference counting: a StringIO that neither sys.stdout nor any run's
\* old_stdout names any more is freed, and nothing can read it again
Reclaim(bufs, live) ==
    [k \in DOMAIN bufs |-> IF k \in live THEN bufs[k] ELSE <<>>]

\* file.write(text) on whatever object sys.stdout names at that moment
Write(text) ==
    IF sys_stdout = Console
    THEN /\ console' = console \o text
         /\ UNCHANGED buffers
    ELSE /\ buffers' = [buffers EXCEPT ![sys_stdout] = @ \o text]
         /\ UNCHANGED console

\* the names an instruction looks up, and the text it writes when it runs
NamesOf(i) ==
    CASE i.op = "print" -> {"print"}
      [] i.op = "print_len_df" -> {"print", "len", "df"}
      [] i.op = "ref" -> {i.arg[1]}
      [] OTHER -> {}

TextOf(i, n) ==
    CASE i.op = "write" -> i.arg
      [] i.op = "print" -> print(i.arg)
      [] i.op = "print_len_df" -> print(str(n))
      [] OTHER -> <<>>

\* line 150: exec(codigo_generado, {'pd': pd, 'df': df}), one instruction at
\* a time; running off the end of the script is exec returning
ExecStep(s) ==
    /\ pc[s] = "exec"
    /\ calls' = [calls EXCEPT ![s].exec = IF ip[s] = 1 THEN @ + 1 ELSE @]
    /\ IF ip[s] > Len(codigo_generado[s])
       THEN /\ pc' = [pc EXCEPT ![s] = "getvalue"]
            /\ stage' = [stage EXCEPT ![s] = "Executed"]
            /\ UNCHANGED <<buffers, console, ip, ui, escaped, own, resolved, raised>>
       ELSE LET i == codigo_generado[s][ip[s]]
                unknown == {n \in NamesOf(i) : ~Lookup(n)}
                e == IF i.op = "raise" THEN i.arg[1]
                     ELSE IF unknown # {} THEN "NameError"
                     ELSE None
            IN  IF e # None
                THEN /\ raised' = [raised EXCEPT ![s] = e]
                     /\ Except(s, e)
                     /\ UNCHANGED <<buffers, console, ip, own, resolved>>
                ELSE /\ Write(TextOf(i, df_filtrado[s]))
                     /\ own' = [own EXCEPT ![s] = @ \o TextOf(i, df_filtrado[s])]
                     /\ resolved' = [resolved EXCEPT ![s] = @ \cup NamesOf(i)]
                     /\ ip' = [ip EXCEPT ![s] = @ + 1]
                     /\ UNCHANGED <<pc, stage, ui, escaped, raised>>
    /\ UNCHANGED <<df_citas_completa, sys_stdout, requests, model, pregunta_usuario,
                   df_filtrado, codigo_generado, old_stdout, resultado_analisis,
                   prompt_interprete, genFailed, before>>

\* line 151: resultado_analisis = sys.stdout.getvalue(); the original
\* stream has no getvalue attribute
GetValue(s) ==
    /\ pc[s] = "getvalue"
    /\ IF sys_stdout = Console
       THEN /\ Except(s, "AttributeError")
            /\ UNCHANGED resultado_analisis
       ELSE /\ resultado_analisis' =
                   [resultado_analisis EXCEPT ![s] = buffers[sys_stdout]]
            /\ pc' = [pc EXCEPT ![s] = "restore"]
            /\ UNCHANGED <<stage, ui, escaped>>
    /\ UNCHANGED <<globals, model, pregunta_usuario, df_filtrado, codigo_generado,
                   ip, old_stdout, prompt_interprete, calls, own, resolved,
                   raised, genFailed, before>>

\* line 152: sys.stdout = old_stdout
Restore(s) ==
    /\ pc[s] = "restore"
    /\ sys_stdout' = old_stdout[s]
    /\ buffers' = Reclaim(buffers, {old_stdout[t] : t \in Sessions})
    /\ pc' = [pc EXCEPT ![s] = "interpret"]
    /\ UNCHANGED <<df_citas_completa, console, requests, model,
                   pregunta_usuario, df_filtrado, codigo_generado, ip, old_stdout,
                   resultado_analisis, prompt_interprete, ui, escaped, history>>

\* line 153-168: build prompt_interprete, second generate_content call
Interpret(s) ==
    /\ pc[s] = "interpret"
    /\ calls' = [calls EXCEPT ![s].interp = @ + 1]
    /\ prompt_interprete' = [prompt_interprete EXCEPT ![s] =
            [pregunta |-> pregunta_usuario[s], resultado |-> resultado_analisis[s]]]
    /\ \/ Except(s, "GoogleAPIError")
       \/ /\ pc' = [pc EXCEPT ![s] = "display"]
          /\ stage' = [stage EXCEPT ![s] = "Interpreted"]
          /\ UNCHANGED <<ui, escaped>>
    /\ UNCHANGED <<globals, model, pregunta_usuario, df_filtrado, codigo_generado,
                   ip, old_stdout, resultado_analisis, own, resolved, raised,
                   genFailed, before>>

\* line 169-170: st.markdown(header), st.success(respuesta_final_ia.text);
\* .text raises ValueError when the response carries no text part
Display(s) ==
    /\ pc[s] = "display"
    /\ \/ /\ ui' = [ui EXCEPT ![s] = @ \o <<Msg("header", <<>>), Msg("answer", Answer)>>]
          /\ pc' = [pc EXCEPT ![s] = "end"]
          /\ stage' = [stage EXCEPT ![s] = "Done"]
          /\ UNCHANGED escaped
       \/ /\ stage' = [stage EXCEPT ![s] = "Failed"]
          /\ pc' = [pc EXCEPT ![s] = "end"]
          /\ ui' = [ui EXCEPT ![s] = @ \o <<Msg("header", <<>>),
                                           Msg("error_oops", <<>>),
                                           Msg("exception", <<"ValueError">>)>>]
          /\ UNCHANGED escaped
    /\ UNCHANGED <<globals, model, pregunta_usuario, df_filtrado, codigo_generado,
                   ip, old_stdout, resultado_analisis, prompt_interprete, calls,
                   own, resolved, raised, genFailed, before>>

\* line 287: the script run is over and its namespace is discarded; the
\* process-wide sys.stdout, the StringIO objects and the console stay
Finish(s) ==
    /\ Ended(s)
    /\ pc' = [pc EXCEPT ![s] = "idle"]
    /\ model' = [model EXCEPT ![s] = FALSE]
    /\ pregunta_usuario' = [pregunta_usuario EXCEPT ![s] = <<>>]
    /\ df_filtrado' = [df_filtrado EXCEPT ![s] = 0]
    /\ codigo_generado' = [codigo_generado EXCEPT ![s] = <<>>]
    /\ ip' = [ip EXCEPT ![s] = 1]
    /\ old_stdout' = [old_stdout EXCEPT ![s] = NoObject]
    /\ resultado_analisis' = [resultado_analisis EXCEPT ![s] = Unbound]
    /\ prompt_interprete' = [prompt_interprete EXCEPT ![s] = Unbound]
    /\ ui' = [ui EXCEPT ![s] = <<>>]
    /\ escaped' = [escaped EXCEPT ![s] = None]
    /\ calls' = [calls EXCEPT ![s] = [gen |-> 0, exec |-> 0, interp |-> 0]]
    /\ stage' = [stage EXCEPT ![s] = "None"]
    /\ own' = [own EXCEPT ![s] = <<>>]
    /\ resolved' = [resolved EXCEPT ![s] = {}]
    /\ raised' = [raised EXCEPT ![s] = None]
    /\ genFailed' = [genFailed EXCEPT ![s] = FALSE]
    /\ before' = [before EXCEPT ![s] = [stdout |-> Console, console |-> <<>>]]
    /\ buffers' = Reclaim(buffers, {sys_stdout} \cup {old_stdout[t] : t \in Sessions \ {s}})
    /\ UNCHANGED <<df_citas_completa, sys_stdout, console, requests>>

\* one user at a time: a click is served only when no other run is under way
RunPageAlone(s) ==
    /\ \A t \in Sessions \ {s} : pc[t] = "idle"
    /\ RunPage(s)

Next ==
    \E s \in Sessions :
        \/ RunPageAlone(s)
        \/ GenerateScript(s)
        \/ Redirect(s)
        \/ ExecStep(s)
        \/ GetValue(s)
        \/ Restore(s)
        \/ Interpret(s)
        \/ Display(s)
        \/ Finish(s)

Spec == Init /\ [][Next]_vars

\* several users at once: Streamlit runs each session's script in its own
\* thread of the same process, so the steps of two runs interleave
NextConc ==
    \E s \in Sessions :
        \/ RunPage(s)
        \/ GenerateScript(s)
        \/ Redirect(s)
        \/ ExecStep(s)
        \/ GetValue(s)
        \/ Restore(s)
        \/ Interpret(s)
        \/ Display(s)
        \/ Finish(s)

SpecConc == Init /\ [][NextConc]_vars

\* ---------------------------------------------------------------- claims
Reported(s, e) == \E i \in 1..Len(ui[s]) : ui[s][i] = Msg("exception", <<e>>)

NoDataShown(s) == Shown(s, "error_load") \/ Shown(s, "warn_no_data")

EmptyInput(s) ==
    /\ pc[s] # "idle"
    /\ (df_citas_completa = 0 \/ df_filtrado[s] = 0 \/ pregunta_usuario[s] = <<>>)

NothingStarted(s) ==
    /\ calls[s] = [gen |-> 0, exec |-> 0, interp |-> 0]
    /\ pc[s] = "end"
    /\ stage[s] = "None"
    /\ old_stdout[s] = NoObject
    /\ ~Shown(s, "code")
    /\ ~Shown(s, "answer")

\* C1: when the generated script raises, the interpretation stage never
\* runs (no second model call, no prompt built from the output, no final
\* answer), the output written before the raise is not kept as a result,
\* and the request ends with an error report carrying the exception.
C1_ScriptErrorEndsInReport ==
    \A s \in Sessions :
        raised[s] # None =>
            /\ calls[s].interp = 0
            /\ ~Shown(s, "answer")
            /\ resultado_analisis[s] = Unbound
            /\ prompt_interprete[s] = Unbound
            /\ Ended(s) => Reported(s, raised[s])

\* C2, as stated: with an empty dataset (loaded or filtered) or an empty
\* question nothing starts, and the message shown names that cause: "no
\* data" for the empty dataset, "write a question" for the empty question.
C2_RefusalNamesItsCause ==
    \A s \in Sessions :
        EmptyInput(s) =>
            /\ NothingStarted(s)
            /\ \/ (df_citas_completa = 0 \/ df_filtrado[s] = 0) /\ NoDataShown(s)
               \/ pregunta_usuario[s] = <<>> /\ Shown(s, "warn_question")

\* C2, amended: with an empty dataset or an empty question nothing starts
\* (no model call, no exec) and exactly one refusal is shown: the load
\* error for an empty loaded dataset; else the "cannot connect" error when
\* the model is not configured; else "write a question" for an empty
\* question; else "no data" for an empty filtered dataset.
C2_RefusedBeforeAnyCall ==
    \A s \in Sessions :
        EmptyInput(s) =>
            /\ NothingStarted(s)
            /\ IF df_citas_completa = 0 THEN Shown(s, "error_load")
               ELSE IF ~model[s] THEN Shown(s, "error_no_model")
               ELSE IF pregunta_usuario[s] = <<>> THEN Shown(s, "warn_question")
               ELSE Shown(s, "warn_no_data")
            /\ Cardinality({k \in {"error_load", "error_no_model", "warn_question",
                                   "warn_no_data"} : Shown(s, k)}) = 1

C2_Witness ==
    \E s \in Sessions :
        /\ model[s]
        /\ pregunta_usuario[s] # <<>>
        /\ df_citas_completa > 0
        /\ df_filtrado[s] = 0
        /\ pc[s] = "end"
        /\ Shown(s, "warn_no_data")

\* C3: when the model is None or the script-generation call fails, exec is
\* never called, stdout is never redirected and no interpretation call is
\* issued for that request.
C3_NoModelNoExecution ==
    \A s \in Sessions :
        ((pc[s] # "idle" /\ ~model[s]) \/ genFailed[s]) =>
            /\ calls[s].exec = 0
            /\ calls[s].interp = 0
            /\ old_stdout[s] = NoObject
            /\ pc[s] \in {"end", "crashed"}
            /\ ~Shown(s, "answer")

C3_Witness ==
    \E s \in Sessions :
        /\ genFailed[s]
        /\ calls[s].gen = 1
        /\ pc[s] = "end"
        /\ Reported(s, "GoogleAPIError")

StageAfter(a) ==
    CASE a = "None" -> {"Requested"}
      [] a = "Requested" -> {"ScriptObtained", "Failed"}
      [] a = "ScriptObtained" -> {"Executed", "Failed"}
      [] a = "Executed" -> {"Interpreted", "Failed"}
      [] a = "Interpreted" -> {"Done", "Failed"}
      [] a = "Done" -> {"None"}
      [] a = "Failed" -> {"None"}

\* C4: a request moves Requested -> ScriptObtained -> Executed ->
\* Interpreted -> Done one stage at a time, each stage entered by exactly
\* one call of its operation; a failure ends the request (the only step
\* after Failed or Done is the run being over), so a request never issues
\* more than one generation call, one exec and one interpretation call.
C4_StagesInOrder ==
    [][\A s \in Sessions :
        /\ stage'[s] # stage[s] => stage'[s] \in StageAfter(stage[s])
        /\ stage[s] \in {"Done", "Failed"} =>
              calls'[s] \in {calls[s], [gen |-> 0, exec |-> 0, interp |-> 0]}
        /\ calls'[s].gen <= 1 /\ calls'[s].exec <= 1 /\ calls'[s].interp <= 1
        /\ (stage'[s] # stage[s] /\ stage'[s] = "ScriptObtained") =>
              calls'[s] = [gen |-> 1, exec |-> 0, interp |-> 0]
        /\ (stage'[s] # stage[s] /\ stage'[s] = "Executed") =>
              calls'[s] = [gen |-> 1, exec |-> 1, interp |-> 0]
        /\ (stage'[s] # stage[s] /\ stage'[s] \in {"Interpreted", "Done"}) =>
              calls'[s] = [gen |-> 1, exec |-> 1, interp |-> 1]
      ]_vars

C4_Witness ==
    \E s \in Sessions :
        /\ stage[s] = "Done"
        /\ calls[s] = [gen |-> 1, exec |-> 1, interp |-> 1]
        /\ Shown(s, "answer")

\* C5: a script that ends normally with empty captured output is treated
\* as a failure: no interpretation call and no final answer.
C5_SilentScriptIsFailure ==
    \A s \in Sessions :
        resultado_analisis[s] = <<>> =>
            /\ calls[s].interp = 0
            /\ ~Shown(s, "answer")

\* C6: the only names a generated script can resolve are the granted
\* bindings df and pd (print and len, the calls of the output statement,
\* are left aside); any other name stops the script with a NameError.
C6_OnlyGrantedNames ==
    \A s \in Sessions :
        resolved[s] \ {"print", "len"} \subseteq exec_globals

\* C7: with requests running concurrently, each captured result is exactly
\* the text its own script wrote, and no request fails on sys.stdout having
\* been swapped by another.
C7_ResultIsOwnOutput ==
    \A s \in Sessions :
        /\ resultado_analisis[s] # Unbound => resultado_analisis[s] = own[s]
        /\ ~Reported(s, "AttributeError")

\* C8: every started request ends inside the handler, with a final answer
\* or an error message on the page; no exception leaves the try block.
C8_EveryFailureReported ==
    \A s \in Sessions :
        (Ended(s) /\ stage[s] # "None") =>
            /\ pc[s] = "end"
            /\ escaped[s] = None
            /\ Shown(s, "answer") \/ Shown(s, "error_oops")

RECURSIVE Output(_, _)
\* everything a script writes when it runs to its end on n rows
Output(script, n) ==
    IF script = <<>> THEN <<>>
    ELSE TextOf(Head(script), n) \o Output(Tail(script), n)

Captured(s) ==
    /\ resultado_analisis[s] = Output(codigo_generado[s], df_filtrado[s])
    /\ console = before[s].console
    /\ codigo_generado[s] = Script42 => resultado_analisis[s] = <<"4", "2">>
    /\ codigo_generado[s] \in {ScriptNoCode, ScriptSilent} => resultado_analisis[s] = <<>>

\* C9, as stated: the result of a script that ends normally is exactly what
\* it wrote, nothing reaches the console, and print(len(df)) on three rows
\* gives "3".
C9_PrintLenYieldsThree ==
    \A s \in Sessions :
        resultado_analisis[s] # Unbound =>
            /\ Captured(s)
            /\ (codigo_generado[s] = ScriptLen /\ df_filtrado[s] = 3) =>
                  resultado_analisis[s] = <<"3">>

\* C9, amended: the result of a script that ends normally is exactly what
\* it wrote, nothing reaches the console, a script writing "42" gives "42",
\* a silent script gives the empty string, and print(len(df)) on three rows
\* gives "3" followed by the newline print appends.
C9_ResultIsWhatWasWritten ==
    \A s \in Sessions :
        resultado_analisis[s] # Unbound =>
            /\ Captured(s)
            /\ (codigo_generado[s] = ScriptLen /\ df_filtrado[s] = 3) =>
                  resultado_analisis[s] = <<"3", NL>>

C9_Witness ==
    \E s \in Sessions :
        /\ codigo_generado[s] = ScriptLen
        /\ df_filtrado[s] = 3
        /\ before[s].stdout # Console
        /\ resultado_analisis[s] = <<"3", NL>>

\* C10: once a request is over, whatever its outcome, sys.stdout is the
\* object it was when the request began.
C10_StdoutRestored ==
    \A s \in Sessions :
        Ended(s) => sys_stdout = before[s].stdout

====
